---- MODULE Spec2Model ----
(***************************************************************************)
(* Bamboo up/down monitor (src/bamboo_mointor.py).                         *)
(*                                                                         *)
(* The module models the module-level configuration and sanity checks,    *)
(* the prober bamboo_is_up, the notifier send_alert with its bounded      *)
(* delivery polling, and the debounce loop of main.  Strings are          *)
(* sequences of one-character strings so that rstrip, lower and           *)
(* startswith are computed as Python computes them.                       *)
(***************************************************************************)
EXTENDS Integers, Sequences, FiniteSets, TLC

VARIABLES
    env,            \* the process environment after load_dotenv (name -> value)
    UPS,            \* CONSECUTIVE_UPS_REQUIRED
    DOWNS,          \* CONSECUTIVE_DOWNS_REQUIRED
    pc,             \* position of the process
    state,          \* main: state
    sent_down,      \* main: sent_down
    consec_up,      \* main: consec_up
    consec_down,    \* main: consec_down
    is_up,          \* main: is_up, result of the last probe
    resp,           \* outcome of the last requests.get
    msg,            \* kind of the message handed to send_alert in this cycle
    polls,          \* send_alert: iterations of the status loop started
    m_status,       \* send_alert: m.status of the last fetch
    delivery,       \* how the last send_alert call went
    probed,         \* history: a probe has been made
    prev,           \* history: state before the last update of the state machine
    epUp,           \* history: UP alerts in the current episode of state
    epDown,         \* history: DOWN alerts in the current episode of state
    runUp,          \* history: UP alerts in the current run of equal probe results
    runDown,        \* history: DOWN alerts in the current run of equal probe results
    downSinceUp,    \* history: DOWN alerts since the last confirmed UP
    blip,           \* history: a true probe seen since the last DOWN alert, UP not confirmed
    lastEvent,      \* history: kind of the last alert handed to send_alert
    trueRun,        \* history: true probe results since the last false one
    upAt,           \* history: value of trueRun when this run confirmed UP, else 0
    allFalse,       \* history: every probe of this process so far was false
    log,            \* history: the first cycles, one record per cycle
    logCap,         \* history: number of cycles log records
    restarts,       \* history: restarts of the process so far
    midDown         \* history: the last restart came in a notified DOWN episode

vars == <<env, UPS, DOWNS, pc, state, sent_down, consec_up, consec_down, is_up,
          resp, msg, polls, m_status, delivery, probed, prev, epUp, epDown, runUp,
          runDown, downSinceUp, blip, lastEvent, trueRun, upAt, allFalse, log,
          logCap, restarts, midDown>>

monitor == <<state, sent_down, consec_up, consec_down>>
history == <<prev, epUp, epDown, runUp, runDown, downSinceUp, blip, lastEvent,
             trueRun, upAt, allFalse, log, restarts, midDown>>
config == <<env, UPS, DOWNS, logCap>>

----------------------------------------------------------------------------
(* Bounds of the model *)

\* largest threshold explored
MaxThreshold == 3
\* largest value of a consecutive counter explored
MaxCount == 4
\* number of cycles recorded for the scenarios
LogLen == 6
\* number of restarts explored
MaxRestarts == 1

(* Program constants *)

\* default of CONSECUTIVE_UPS_REQUIRED
DefaultUps == 2
\* default of CONSECUTIVE_DOWNS_REQUIRED
DefaultDowns == 1
\* for _ in range(6)
MaxPolls == 6

----------------------------------------------------------------------------
(* Strings *)

None == <<"<None>">>

whatsapp_ == <<"w", "h", "a", "t", "s", "a", "p", "p">>
WhatsAppMixed == <<"W", "h", "a", "t", "s", "A", "p", "p">>
sms_ == <<"s", "m", "s">>
WhatsappPrefix == whatsapp_ \o <<":">>
Number == <<"+", "1">>
NoneStr == <<"N", "o", "n", "e">>

\* bool(v) of an optional string
Truthy(v) == v # None /\ v # <<>>

\* str(v)
Str(v) == IF v = None THEN NoneStr ELSE v

\* s.startswith(p)
StartsWith(s, p) == Len(s) >= Len(p) /\ SubSeq(s, 1, Len(p)) = p

\* s.rstrip("/")
RECURSIVE RStripSlash(_)
RStripSlash(s) ==
    IF s # <<>> /\ s[Len(s)] = "/" THEN RStripSlash(SubSeq(s, 1, Len(s) - 1)) ELSE s

LowerChar(c) ==
    CASE c = "W" -> "w"
      [] c = "A" -> "a"
      [] OTHER -> c

\* s.lower()
Lower(s) == [i \in 1..Len(s) |-> LowerChar(s[i])]

\* os.getenv(name, default)
GetEnv(e, name, default) == IF e[name] = None THEN default ELSE e[name]

----------------------------------------------------------------------------
(* Module-level configuration, as functions of the environment *)

BAMBOO_BASE_URL(e) ==
    RStripSlash(IF Truthy(e.BAMBOO_BASE_URL) THEN e.BAMBOO_BASE_URL ELSE <<>>)

PROJECT_KEY(e) == GetEnv(e, "PROJECT_KEY", <<>>)

ALERT_CHANNEL(e) == Lower(GetEnv(e, "ALERT_CHANNEL", whatsapp_))

TWILIO_FROM(e) == e.TWILIO_FROM
TWILIO_TO(e) == e.TWILIO_TO
TWILIO_ACCOUNT_SID(e) == e.TWILIO_ACCOUNT_SID
TWILIO_AUTH_TOKEN(e) == e.TWILIO_AUTH_TOKEN

\* the two sanity checks: TRUE when neither raises SystemExit
SanityChecks_OrTarget(e) ==
    /\ (BAMBOO_BASE_URL(e) # <<>> \/ PROJECT_KEY(e) # <<>>)
    /\ (ALERT_CHANNEL(e) = whatsapp_ =>
            /\ StartsWith(Str(TWILIO_FROM(e)), WhatsappPrefix)
            /\ StartsWith(Str(TWILIO_TO(e)), WhatsappPrefix))

SanityChecks(e) ==
    /\ (BAMBOO_BASE_URL(e) # <<>> /\ PROJECT_KEY(e) # <<>>)
    /\ (ALERT_CHANNEL(e) = whatsapp_ =>
            /\ StartsWith(Str(TWILIO_FROM(e)), WhatsappPrefix)
            /\ StartsWith(Str(TWILIO_TO(e)), WhatsappPrefix))

\* send_alert: the Twilio variables are all set
TwilioConfigured(e) ==
    /\ Truthy(TWILIO_ACCOUNT_SID(e))
    /\ Truthy(TWILIO_AUTH_TOKEN(e))
    /\ Truthy(TWILIO_FROM(e))
    /\ Truthy(TWILIO_TO(e))

----------------------------------------------------------------------------
(* Environments *)

Env(url, key, chan, sid, tok, from, to) ==
    [BAMBOO_BASE_URL |-> url, PROJECT_KEY |-> key, ALERT_CHANNEL |-> chan,
     TWILIO_ACCOUNT_SID |-> sid, TWILIO_AUTH_TOKEN |-> tok,
     TWILIO_FROM |-> from, TWILIO_TO |-> to]

Urls == {None, <<"/">>, <<"h", "/">>}
Keys == {None, <<"P">>}
Channels == {None, WhatsAppMixed, sms_}
Secrets == {None, <<"x">>}
Addresses == {None, WhatsappPrefix \o Number, Number}

AllEnvs ==
    {Env(u, k, c, s, t, f, o) :
        u \in Urls, k \in Keys, c \in Channels, s \in Secrets, t \in Secrets,
        f \in Addresses, o \in Addresses}

\* the environments the loop is explored under
LoopEnvs ==
    { Env(<<"h", "/">>, <<"P">>, None, <<"x">>, <<"x">>,
          WhatsappPrefix \o Number, WhatsappPrefix \o Number),
      Env(<<"h">>, <<"P">>, sms_, None, <<"x">>, Number, Number),
      Env(<<"h">>, None, sms_, <<"x">>, <<"x">>, Number, Number) }

----------------------------------------------------------------------------
(* Prober *)

Responses ==
    [kind : {"http"}, status_code : {199, 200, 399, 400}]
        \cup [kind : {"RequestException"}, status_code : {0}]

NoResp == [kind |-> "none", status_code |-> 0]

\* mutant: the upper end of the range is included
bamboo_is_up_Le400(r) ==
    IF r.kind = "RequestException"
    THEN [raised |-> FALSE, value |-> FALSE]
    ELSE [raised |-> FALSE, value |-> 200 <= r.status_code /\ r.status_code <= 400]

\* bamboo_is_up, given what requests.get did
bamboo_is_up(r) ==
    IF r.kind = "RequestException"
    THEN [raised |-> FALSE, value |-> FALSE]
    ELSE [raised |-> FALSE, value |-> 200 <= r.status_code /\ r.status_code < 400]

----------------------------------------------------------------------------
(* Debounce state machine: main, lines 106-136, up to the call of send_alert.
   The result carries the MonitorState after the update and the kind of the
   message handed to send_alert ("NONE" when it is not called).  In the DOWN
   branch sent_down is set after send_alert returns (line 132), so the result
   leaves it as it was. *)

MS(st, sd, cu, cd, ev) ==
    [state |-> st, sent_down |-> sd, consec_up |-> cu, consec_down |-> cd, event |-> ev]

\* mutant: the "if state != UP" test is dropped
observe_NoUpGuard(st, sd, cu, cd, up, ups, downs) ==
    IF up
    THEN IF cu + 1 >= ups
         THEN MS("UP", FALSE, 0, 0, "UP")
         ELSE MS(st, sd, cu + 1, 0, "NONE")
    ELSE IF cd + 1 >= downs
         THEN MS("DOWN", sd, 0, cd + 1, IF ~sd THEN "DOWN" ELSE "NONE")
         ELSE MS(st, sd, 0, cd + 1, "NONE")

\* mutant: thresholds compared with > instead of >=
observe_StrictThreshold(st, sd, cu, cd, up, ups, downs) ==
    IF up
    THEN IF cu + 1 > ups
         THEN IF st # "UP"
              THEN MS("UP", FALSE, 0, 0, "UP")
              ELSE MS(st, sd, cu + 1, 0, "NONE")
         ELSE MS(st, sd, cu + 1, 0, "NONE")
    ELSE IF cd + 1 > downs
         THEN MS("DOWN", sd, 0, cd + 1, IF ~sd THEN "DOWN" ELSE "NONE")
         ELSE MS(st, sd, 0, cd + 1, "NONE")

\* mutant: a confirmed UP does not reset sent_down
observe_KeepSentDown(st, sd, cu, cd, up, ups, downs) ==
    IF up
    THEN IF cu + 1 >= ups
         THEN IF st # "UP"
              THEN MS("UP", sd, 0, 0, "UP")
              ELSE MS(st, sd, cu + 1, 0, "NONE")
         ELSE MS(st, sd, cu + 1, 0, "NONE")
    ELSE IF cd + 1 >= downs
         THEN MS("DOWN", sd, 0, cd + 1, IF ~sd THEN "DOWN" ELSE "NONE")
         ELSE MS(st, sd, 0, cd + 1, "NONE")

\* mutant: the "if not sent_down" test is dropped
observe_NoSentDownTest(st, sd, cu, cd, up, ups, downs) ==
    IF up
    THEN IF cu + 1 >= ups
         THEN IF st # "UP"
              THEN MS("UP", FALSE, 0, 0, "UP")
              ELSE MS(st, sd, cu + 1, 0, "NONE")
         ELSE MS(st, sd, cu + 1, 0, "NONE")
    ELSE IF cd + 1 >= downs
         THEN MS("DOWN", sd, 0, cd + 1, "DOWN")
         ELSE MS(st, sd, 0, cd + 1, "NONE")

\* mutant: a true result does not reset consec_down
observe_KeepDownCount(st, sd, cu, cd, up, ups, downs) ==
    IF up
    THEN IF cu + 1 >= ups
         THEN IF st # "UP"
              THEN MS("UP", FALSE, 0, cd, "UP")
              ELSE MS(st, sd, cu + 1, cd, "NONE")
         ELSE MS(st, sd, cu + 1, cd, "NONE")
    ELSE IF cd + 1 >= downs
         THEN MS("DOWN", sd, 0, cd + 1, IF ~sd THEN "DOWN" ELSE "NONE")
         ELSE MS(st, sd, 0, cd + 1, "NONE")

\* mutant: a confirmed UP does not reset consec_up
observe_NoUpReset(st, sd, cu, cd, up, ups, downs) ==
    IF up
    THEN IF cu + 1 >= ups
         THEN IF st # "UP"
              THEN MS("UP", FALSE, cu + 1, 0, "UP")
              ELSE MS(st, sd, cu + 1, 0, "NONE")
         ELSE MS(st, sd, cu + 1, 0, "NONE")
    ELSE IF cd + 1 >= downs
         THEN MS("DOWN", sd, 0, cd + 1, IF ~sd THEN "DOWN" ELSE "NONE")
         ELSE MS(st, sd, 0, cd + 1, "NONE")

\* mutant: the DOWN branch alerts without setting state
observe_NoDownState(st, sd, cu, cd, up, ups, downs) ==
    IF up
    THEN IF cu + 1 >= ups
         THEN IF st # "UP"
              THEN MS("UP", FALSE, 0, 0, "UP")
              ELSE MS(st, sd, cu + 1, 0, "NONE")
         ELSE MS(st, sd, cu + 1, 0, "NONE")
    ELSE IF cd + 1 >= downs
         THEN MS(st, sd, 0, cd + 1, IF ~sd THEN "DOWN" ELSE "NONE")
         ELSE MS(st, sd, 0, cd + 1, "NONE")

observe(st, sd, cu, cd, up, ups, downs) ==
    IF up
    THEN \* consec_up += 1; consec_down = 0
         IF cu + 1 >= ups
         THEN IF st # "UP"
              THEN MS("UP", FALSE, 0, 0, "UP")
              ELSE MS(st, sd, cu + 1, 0, "NONE")
         ELSE MS(st, sd, cu + 1, 0, "NONE")
    ELSE \* consec_up = 0; consec_down += 1
         IF cd + 1 >= downs
         THEN MS("DOWN", sd, 0, cd + 1, IF ~sd THEN "DOWN" ELSE "NONE")
         ELSE MS(st, sd, 0, cd + 1, "NONE")

----------------------------------------------------------------------------
(* Notifier: send_alert.  Each operator says where control goes next:
   "poll" (the status loop goes on), "return" (send_alert returns to main) or
   "propagate" (an exception leaves send_alert). *)

\* what client.messages.create can do
CreateOutcomes == {"created", "raise"}

\* what client.messages(sid).fetch() can do: raise, or report a status
FetchOutcomes == {"raise", "queued", "sent", "delivered", "undelivered", "failed"}

Terminal == {"delivered", "undelivered", "failed"}

\* mutant: no try/except around the Twilio calls
send_alert_NoExcept(e, create) ==
    IF ~TwilioConfigured(e)
    THEN [next |-> "return", delivery |-> "missing"]
    ELSE IF create = "raise"
         THEN [next |-> "propagate", delivery |-> "error"]
         ELSE [next |-> "poll", delivery |-> "created"]

\* lines 71-77: the guard on the Twilio variables and messages.create
send_alert(e, create) ==
    IF ~TwilioConfigured(e)
    THEN [next |-> "return", delivery |-> "missing"]
    ELSE IF create = "raise"
         THEN [next |-> "return", delivery |-> "error"]
         ELSE [next |-> "poll", delivery |-> "created"]

\* mutant: the status loop does not break on a terminal status
send_alert_poll_NoBreak(n, fetch) ==
    IF fetch = "raise"
    THEN [next |-> "return", delivery |-> "poll_error"]
    ELSE IF n + 1 >= MaxPolls
         THEN [next |-> "return", delivery |-> "created"]
         ELSE [next |-> "poll", delivery |-> "created"]

\* lines 82-87: one iteration of the status loop, n iterations done before it
send_alert_poll(n, fetch) ==
    IF fetch = "raise"
    THEN [next |-> "return", delivery |-> "poll_error"]
    ELSE IF fetch \in Terminal \/ n + 1 >= MaxPolls
         THEN [next |-> "return", delivery |-> "created"]
         ELSE [next |-> "poll", delivery |-> "created"]

----------------------------------------------------------------------------
(* The process *)

Cap(n) == IF n > 2 THEN 2 ELSE n
Bit(b) == IF b THEN 1 ELSE 0

InitLoop ==
    /\ pc = "start"
    /\ state = "UNKNOWN"
    /\ sent_down = FALSE
    /\ consec_up = 0
    /\ consec_down = 0
    /\ is_up = FALSE
    /\ resp = NoResp
    /\ msg = "NONE"
    /\ polls = 0
    /\ m_status = "none"
    /\ delivery = "none"
    /\ probed = FALSE
    /\ prev = "UNKNOWN"
    /\ epUp = 0
    /\ epDown = 0
    /\ runUp = 0
    /\ runDown = 0
    /\ downSinceUp = 0
    /\ blip = FALSE
    /\ lastEvent = "NONE"
    /\ trueRun = 0
    /\ upAt = 0
    /\ allFalse = TRUE
    /\ log = <<>>
    /\ restarts = 0
    /\ midDown = FALSE

\* every threshold pair, a few environments
Init ==
    /\ env \in LoopEnvs
    /\ UPS \in 1..MaxThreshold
    /\ DOWNS \in 1..MaxThreshold
    /\ logCap = 0
    /\ InitLoop

\* the thresholds of the two scenarios, the first cycles recorded
InitScenario ==
    /\ env \in {e \in LoopEnvs : SanityChecks(e)}
    /\ \E th \in {<<2, 1>>, <<3, 2>>} : UPS = th[1] /\ DOWNS = th[2]
    /\ logCap = LogLen
    /\ InitLoop

\* every environment, the default thresholds
InitStartup ==
    /\ env \in AllEnvs
    /\ UPS = DefaultUps
    /\ DOWNS = DefaultDowns
    /\ logCap = 0
    /\ InitLoop

\* lines 34-40 and the call of main
Startup ==
    /\ pc = "start"
    /\ pc' = IF SanityChecks(env) THEN "probe" ELSE "exited"
    /\ UNCHANGED <<config, monitor, history, is_up, resp, msg, polls, m_status,
                   delivery, probed>>

\* line 104: is_up = bamboo_is_up()
Probe ==
    /\ pc = "probe"
    /\ \E r \in Responses :
         LET b == bamboo_is_up(r) IN
         /\ \/ b.raised
            \/ b.value /\ consec_up < MaxCount /\ trueRun < MaxCount + MaxThreshold
            \/ ~b.value /\ consec_down < MaxCount
         /\ resp' = r
         /\ probed' = TRUE
         /\ IF b.raised
            THEN /\ pc' = "crashed"
                 /\ UNCHANGED <<is_up, runUp, runDown>>
            ELSE /\ pc' = "observe"
                 /\ is_up' = b.value
                 /\ IF ~probed \/ b.value # is_up
                    THEN runUp' = 0 /\ runDown' = 0
                    ELSE UNCHANGED <<runUp, runDown>>
    /\ UNCHANGED <<config, monitor, msg, polls, m_status, delivery, prev, epUp,
                   epDown, downSinceUp, blip, lastEvent, trueRun, upAt, allFalse,
                   log, restarts, midDown>>

\* lines 106-136, up to the call of send_alert
Observe ==
    /\ pc = "observe"
    /\ LET new == observe(state, sent_down, consec_up, consec_down, is_up, UPS, DOWNS)
           changed == new.state # state
           toUp == new.state = "UP" /\ state # "UP"
       IN
         /\ state' = new.state
         /\ sent_down' = new.sent_down
         /\ consec_up' = new.consec_up
         /\ consec_down' = new.consec_down
         /\ msg' = new.event
         /\ delivery' = "none"
         /\ pc' = IF new.event = "NONE" THEN "sleep" ELSE "send_alert"
         /\ prev' = state
         /\ epUp' = Cap((IF changed THEN 0 ELSE epUp) + Bit(new.event = "UP"))
         /\ epDown' = Cap((IF changed THEN 0 ELSE epDown) + Bit(new.event = "DOWN"))
         /\ runUp' = Cap(runUp + Bit(new.event = "UP"))
         /\ runDown' = Cap(runDown + Bit(new.event = "DOWN"))
         /\ downSinceUp' = IF toUp THEN 0
                           ELSE Cap(downSinceUp + Bit(new.event = "DOWN"))
         /\ blip' = IF toUp \/ new.event = "DOWN" THEN FALSE
                    ELSE IF is_up /\ downSinceUp >= 1 THEN TRUE
                    ELSE blip
         /\ lastEvent' = IF new.event = "NONE" THEN lastEvent ELSE new.event
         /\ trueRun' = IF is_up THEN trueRun + 1 ELSE 0
         /\ upAt' = IF ~is_up THEN 0 ELSE IF toUp THEN trueRun + 1 ELSE upAt
         /\ allFalse' = (allFalse /\ ~is_up)
         /\ log' = IF Len(log) < logCap
                   THEN Append(log, [is_up |-> is_up, event |-> new.event,
                                     consec_up |-> new.consec_up,
                                     consec_down |-> new.consec_down])
                   ELSE log
    /\ UNCHANGED <<config, is_up, resp, polls, m_status, probed, restarts, midDown>>

\* send_alert returns to main: line 132 after a DOWN alert, else nothing
Return ==
    /\ pc' = "sleep"
    /\ sent_down' = IF msg = "DOWN" THEN TRUE ELSE sent_down

\* where an exception that leaves send_alert ends: main does not catch it
Propagate ==
    /\ pc' = "crashed"
    /\ UNCHANGED sent_down

\* lines 69-77: send_alert up to the status loop
SendAlert ==
    /\ pc = "send_alert"
    /\ \E create \in CreateOutcomes :
         LET r == send_alert(env, create) IN
         /\ delivery' = r.delivery
         /\ CASE r.next = "poll" -> pc' = "poll" /\ UNCHANGED sent_down
              [] r.next = "return" -> Return
              [] r.next = "propagate" -> Propagate
    /\ polls' = 0
    /\ UNCHANGED <<config, state, consec_up, consec_down, history, is_up, resp, msg,
                   m_status, probed>>

\* lines 82-87: one iteration of the status loop
Poll ==
    /\ pc = "poll"
    /\ polls < MaxPolls
    /\ \E fetch \in FetchOutcomes :
         LET r == send_alert_poll(polls, fetch) IN
         /\ delivery' = r.delivery
         /\ m_status' = IF fetch = "raise" THEN m_status ELSE fetch
         /\ CASE r.next = "poll" -> pc' = "poll" /\ UNCHANGED sent_down
              [] r.next = "return" -> Return
              [] r.next = "propagate" -> Propagate
    /\ polls' = polls + 1
    /\ UNCHANGED <<config, state, consec_up, consec_down, history, is_up, resp, msg,
                   probed>>

\* line 138: time.sleep(CHECK_INTERVAL), then the next iteration
Sleep ==
    /\ pc = "sleep"
    /\ pc' = "probe"
    /\ polls' = 0
    /\ m_status' = "none"
    /\ UNCHANGED <<config, monitor, history, is_up, resp, msg, delivery, probed>>

\* the process is killed inside the loop and started again: the module is
\* loaded and main's locals are created anew (lines 10-40, 98-101)
Restart ==
    /\ pc \in {"probe", "observe", "send_alert", "poll", "sleep"}
    /\ restarts < MaxRestarts
    /\ restarts' = restarts + 1
    /\ midDown' = (state = "DOWN" /\ sent_down)
    /\ pc' = "start"
    /\ state' = "UNKNOWN"
    /\ sent_down' = FALSE
    /\ consec_up' = 0
    /\ consec_down' = 0
    /\ is_up' = FALSE
    /\ resp' = NoResp
    /\ msg' = "NONE"
    /\ polls' = 0
    /\ m_status' = "none"
    /\ delivery' = "none"
    /\ probed' = FALSE
    /\ prev' = "UNKNOWN"
    /\ epUp' = 0
    /\ epDown' = 0
    /\ runUp' = 0
    /\ runDown' = 0
    /\ downSinceUp' = 0
    /\ blip' = FALSE
    /\ lastEvent' = "NONE"
    /\ trueRun' = 0
    /\ upAt' = 0
    /\ allFalse' = TRUE
    /\ UNCHANGED <<config, log>>

Next == Startup \/ Probe \/ Observe \/ SendAlert \/ Poll \/ Sleep

NextRestart == Next \/ Restart

Spec == Init /\ [][Next]_vars

SpecStartup == InitStartup /\ [][Next]_vars

SpecScenario == InitScenario /\ [][Next]_vars

SpecRestart == Init /\ [][NextRestart]_vars

----------------------------------------------------------------------------
(* Properties *)

\* positions between two cycles, where MonitorState is at rest
Boundary == pc \in {"probe", "sleep"}

\* C1: at most one UP alert is sent during an UP episode and at most one DOWN
\* alert during a DOWN episode, an episode being a maximal run of cycles that
\* end with the same state.
C1_OnePerEpisode == epUp <= 1 /\ epDown <= 1

\* a DOWN episode that went on after its alert: the counter passed the threshold
C1_Witness ==
    /\ pc = "sleep"
    /\ state = "DOWN"
    /\ prev = "DOWN"
    /\ epDown = 1
    /\ msg = "NONE"
    /\ consec_down > DOWNS

\* C2: state changes only in the update of a cycle, to UP only on a true
\* result that brings consec_up to exactly CONSECUTIVE_UPS_REQUIRED and to DOWN
\* only on a false result that brings consec_down to exactly
\* CONSECUTIVE_DOWNS_REQUIRED; and whenever a counter reaches its threshold
\* while state differs from the target, state changes in that same cycle.
C2_ChangeAtThreshold ==
    [][ /\ pc # "observe" => state' = state
        /\ pc = "observe" =>
             /\ state' # state =>
                  \/ state' = "UP" /\ is_up /\ consec_up + 1 = UPS
                  \/ state' = "DOWN" /\ ~is_up /\ consec_down + 1 = DOWNS
             /\ (is_up /\ consec_up + 1 >= UPS /\ state # "UP") => state' = "UP"
             /\ (~is_up /\ consec_down + 1 >= DOWNS /\ state # "DOWN")
                    => state' = "DOWN" ]_vars

\* a change to UP confirmed by more than one result, after a DOWN episode
C2_Witness ==
    /\ pc = "send_alert"
    /\ prev = "DOWN"
    /\ state = "UP"
    /\ UPS >= 2

\* C3 as stated: exactly one of consec_up, consec_down is nonzero in every
\* reachable MonitorState.
C3_ExactlyOneNonzero == (consec_up # 0) # (consec_down # 0)

\* C3 amended: the two counters are never both nonzero; between two cycles
\* both are zero exactly before the first probe and after a cycle that
\* confirmed UP, and exactly one is nonzero otherwise.
C3_AtMostOneNonzero ==
    /\ ~(consec_up # 0 /\ consec_down # 0)
    /\ Boundary =>
         ((consec_up = 0 /\ consec_down = 0) <=> (~probed \/ msg = "UP"))

\* the end of a cycle that confirmed UP: both counters are zero
C3_Witness ==
    /\ pc = "sleep"
    /\ msg = "UP"
    /\ consec_up = 0
    /\ consec_down = 0

\* C4: sent_down is false whenever state is not DOWN (at every position of
\* the process, the cycle boundaries included).
C4_SentDownOnlyWhenDown == sent_down => state = "DOWN"

\* the end of a cycle that left a notified DOWN episode for UP
C4_Witness ==
    /\ pc = "sleep"
    /\ prev = "DOWN"
    /\ state = "UP"
    /\ ~sent_down
    /\ msg = "UP"

\* C5: after a DOWN alert no further DOWN alert is sent until a confirmed UP,
\* and sent_down stays true until a step that confirms UP.
C5_NoSecondDown ==
    [][ /\ downSinceUp' <= 1
        /\ (sent_down /\ ~(state' = "UP" /\ state # "UP")) => sent_down' ]_vars

\* a notified run of false results, interrupted by true results that did not
\* confirm UP, crosses the threshold again without an alert
C5_Witness ==
    /\ pc = "sleep"
    /\ blip
    /\ sent_down
    /\ ~is_up
    /\ consec_down >= DOWNS
    /\ msg = "NONE"
    /\ downSinceUp = 1
    /\ prev = "DOWN"

\* C6: within a maximal run of true probe results at most one UP alert is
\* emitted, and within a maximal run of false probe results at most one DOWN
\* alert.
C6_OnePerRun == runUp <= 1 /\ runDown <= 1

\* a run of true results that confirmed UP and reached the threshold again
C6_Witness ==
    /\ pc = "sleep"
    /\ is_up
    /\ runUp = 1
    /\ msg = "NONE"
    /\ consec_up >= UPS

\* C7: a true result observed while state is UP emits no alert and leaves
\* state UP and sent_down false.
C7_StableUp ==
    [][ (pc = "observe" /\ state = "UP" /\ is_up) =>
            /\ msg' = "NONE"
            /\ pc' = "sleep"
            /\ state' = "UP"
            /\ ~sent_down' ]_vars

\* several true results in a row observed in a stable UP
C7_Witness ==
    /\ pc = "sleep"
    /\ prev = "UP"
    /\ state = "UP"
    /\ is_up
    /\ consec_up > UPS
    /\ msg = "NONE"

\* C8: while send_alert runs, whatever the delivery does, state and the
\* counters stay as they are and control comes back to the loop; when it
\* comes back sent_down is true exactly after a DOWN alert, so the alert is
\* not attempted again in the episode; and the sleep is followed by the
\* next probe with MonitorState untouched.
C8_DeliveryFailureHarmless ==
    [][ /\ pc \in {"send_alert", "poll"} =>
             /\ state' = state
             /\ consec_up' = consec_up
             /\ consec_down' = consec_down
             /\ pc' \in {"poll", "sleep"}
             /\ pc' = "poll" => sent_down' = sent_down
             /\ pc' = "sleep" => sent_down' = (msg = "DOWN")
        /\ pc = "sleep" => (pc' = "probe" /\ UNCHANGED monitor)
        /\ epUp' <= 1 /\ epDown' <= 1 ]_vars

\* a DOWN alert whose creation raised: the cycle ends with sent_down set
C8_Witness ==
    /\ pc = "sleep"
    /\ msg = "DOWN"
    /\ delivery = "error"
    /\ sent_down

\* C9: the probe result is true exactly when the endpoint answered with a
\* status code in 200..399, false for every other code and for every
\* transport failure, and a transport failure never leaves bamboo_is_up.
C9_ProbeRange ==
    /\ pc # "crashed"
    /\ probed =>
         (is_up <=> (resp.kind = "http" /\ resp.status_code \in 200..399))

\* a transport failure handed to the loop as false
C9_Witness ==
    /\ pc = "observe"
    /\ resp.kind = "RequestException"
    /\ ~is_up

\* the environment gives no base URL: unset, empty, or slashes only
UrlAbsent(e) ==
    \/ e.BAMBOO_BASE_URL = None
    \/ \A i \in 1..Len(e.BAMBOO_BASE_URL) : e.BAMBOO_BASE_URL[i] = "/"

\* the environment gives no project key
KeyAbsent(e) == e.PROJECT_KEY \in {None, <<>>}

\* the chosen channel is WhatsApp: by default, or named in any letter case
ChannelIsWhatsApp(e) == e.ALERT_CHANNEL \in {None, whatsapp_, WhatsAppMixed}

\* an address of the WhatsApp scheme
IsWhatsAppAddress(a) == a # None /\ StartsWith(a, WhatsappPrefix)

\* an address that is malformed for the chosen channel: for WhatsApp one
\* without the whatsapp: prefix, for any other channel one that is missing
\* or carries the prefix of the WhatsApp scheme
MalformedFor(e, a) ==
    IF ChannelIsWhatsApp(e)
    THEN ~IsWhatsAppAddress(a)
    ELSE a \in {None, <<>>} \/ IsWhatsAppAddress(a)

\* the process never got past the sanity checks
NeverLooped == pc \in {"start", "exited"} /\ ~probed /\ msg = "NONE"

\* C10 as stated: the loop is never entered if the base URL or the project
\* key is absent or if TWILIO_FROM or TWILIO_TO is malformed for the chosen
\* channel, and with a valid configuration the process does not exit.
C10_FailFastAnyChannel ==
    IF \/ UrlAbsent(env)
       \/ KeyAbsent(env)
       \/ MalformedFor(env, env.TWILIO_FROM)
       \/ MalformedFor(env, env.TWILIO_TO)
    THEN NeverLooped
    ELSE pc # "exited"

\* C10 amended: the loop is never entered if the base URL or the project key
\* is absent, or if the channel is WhatsApp and TWILIO_FROM or TWILIO_TO lacks
\* the whatsapp: prefix; in every other case, whatever the addresses of
\* another channel are, the process does not exit and the loop is entered.
C10_FailFastWhatsAppOnly ==
    IF \/ UrlAbsent(env)
       \/ KeyAbsent(env)
       \/ /\ ChannelIsWhatsApp(env)
          /\ ~(IsWhatsAppAddress(env.TWILIO_FROM) /\ IsWhatsAppAddress(env.TWILIO_TO))
    THEN NeverLooped
    ELSE pc # "exited" /\ (pc # "start" => ~NeverLooped)

\* the WhatsApp channel with a sender that lacks the prefix: exit at startup
C10_Witness ==
    /\ pc = "exited"
    /\ ~UrlAbsent(env)
    /\ ~KeyAbsent(env)
    /\ ChannelIsWhatsApp(env)
    /\ env.TWILIO_FROM = Number
    /\ IsWhatsAppAddress(env.TWILIO_TO)

\* the positions inside the loop of main
InLoop == pc \in {"probe", "observe", "send_alert", "poll", "sleep"}

\* C11: inside the loop every step goes on in the order probe, update,
\* at most one call of send_alert, sleep, probe again; MonitorState is
\* touched only by the update and by the return of send_alert; and from
\* every position of the loop a further step is possible, so the loop never
\* ends on its own.
C11_SequentialForever ==
    /\ [][ /\ pc = "probe" => pc' = "observe"
           /\ pc = "observe" => pc' \in {"send_alert", "sleep"}
           /\ pc = "send_alert" => pc' \in {"poll", "sleep"}
           /\ pc = "poll" => pc' \in {"poll", "sleep"}
           /\ pc = "sleep" => pc' = "probe"
           /\ pc \in {"probe", "sleep"} => UNCHANGED monitor ]_vars
    /\ [](InLoop => ENABLED Next)
    /\ [](pc # "start" /\ SanityChecks(env) => InLoop)

\* a cycle with an alert is over and the next cycle has begun
C11_Witness ==
    /\ pc = "observe"
    /\ msg # "NONE"
    /\ delivery = "created"
    /\ lastEvent = "DOWN"
    /\ is_up

\* C12: with CONSECUTIVE_UPS_REQUIRED = 1 a true result observed while state
\* is DOWN sets state to UP and hands an UP alert to send_alert in that
\* cycle; with CONSECUTIVE_DOWNS_REQUIRED = 1 a false result observed while
\* state is UP or UNKNOWN sets state to DOWN and hands over a DOWN alert.
C12_ThresholdOne ==
    [][ /\ (pc = "observe" /\ UPS = 1 /\ is_up /\ state = "DOWN") =>
             (state' = "UP" /\ msg' = "UP" /\ pc' = "send_alert")
        /\ (pc = "observe" /\ DOWNS = 1 /\ ~is_up /\ state \in {"UP", "UNKNOWN"}) =>
             (state' = "DOWN" /\ msg' = "DOWN" /\ pc' = "send_alert") ]_vars

\* threshold 1: one true result after DOWN confirmed UP
C12_Witness ==
    /\ pc = "send_alert"
    /\ UPS = 1
    /\ prev = "DOWN"
    /\ state = "UP"
    /\ msg = "UP"
    /\ trueRun = 1

\* the recorded cycles 1..k have the probe results seq[1..k]
Probed(seq, k) == k <= Len(log) /\ k <= Len(seq) /\ \A i \in 1..k : log[i].is_up = seq[i]

ScenarioB == <<TRUE, TRUE, TRUE, FALSE, TRUE, TRUE>>
EventsB == <<"NONE", "UP", "NONE", "DOWN", "NONE", "UP">>

\* C13: with thresholds (up 2, down 1) the probe results true, true, true,
\* false, true, true from the start give an UP alert in cycle 2, a DOWN alert
\* in cycle 4, an UP alert in cycle 6 and no alert in cycles 1, 3 and 5.
C13_ScenarioB ==
    (UPS = 2 /\ DOWNS = 1 /\ restarts = 0) =>
        \A k \in 1..Len(ScenarioB) : Probed(ScenarioB, k) => log[k].event = EventsB[k]

\* the six cycles of the scenario have run
C13_Witness ==
    /\ UPS = 2
    /\ DOWNS = 1
    /\ Probed(ScenarioB, 6)
    /\ pc = "send_alert"
    /\ msg = "UP"
    /\ Len(log) = 6

ScenarioC == <<FALSE, TRUE, FALSE, FALSE>>
EventsC == <<"NONE", "NONE", "NONE", "DOWN">>
UpCountsC == <<0, 1, 0, 0>>
DownCountsC == <<1, 0, 1, 2>>

\* C14: with thresholds (up 3, down 2) the probe results false, true, false,
\* false from the start give no alert in cycles 1 to 3 and a DOWN alert in
\* cycle 4, the counters after the cycles being (up 0, down 1), (up 1,
\* down 0), (up 0, down 1), (up 0, down 2).
C14_ScenarioC ==
    (UPS = 3 /\ DOWNS = 2 /\ restarts = 0) =>
        \A k \in 1..Len(ScenarioC) :
            Probed(ScenarioC, k) =>
                /\ log[k].event = EventsC[k]
                /\ log[k].consec_up = UpCountsC[k]
                /\ log[k].consec_down = DownCountsC[k]

\* the four cycles of the scenario have run
C14_Witness ==
    /\ UPS = 3
    /\ DOWNS = 2
    /\ Probed(ScenarioC, 4)
    /\ pc = "send_alert"
    /\ msg = "DOWN"
    /\ Len(log) = 4

\* C15 as stated: between two cycles consec_up is the number of true probe
\* results since the most recent false one, or since the start.
C15_UpCountSinceFailure == Boundary => consec_up = trueRun

\* C15 amended: between two cycles consec_up is the number of true probe
\* results since the most recent false result or the most recent confirmed
\* UP, whichever came later, or since the start.
C15_UpCountSinceFailureOrUp == Boundary => consec_up = trueRun - upAt

\* true results went on after the run confirmed UP
C15_Witness ==
    /\ pc = "sleep"
    /\ state = "UP"
    /\ upAt >= 2
    /\ consec_up >= 1
    /\ trueRun = upAt + consec_up

\* C16: after a restart that came in a DOWN episode already notified, while
\* every probe of the new process fails, exactly one DOWN alert is sent, in
\* the cycle that brings consec_down to the threshold; and no second one
\* follows before a confirmed UP.
C16_RenotifyOnce ==
    /\ (restarts >= 1 /\ midDown /\ allFalse) =>
          /\ Boundary => downSinceUp = (IF consec_down >= DOWNS THEN 1 ELSE 0)
          /\ pc \in {"send_alert", "poll"} => (msg = "DOWN" /\ consec_down = DOWNS)
    /\ (restarts >= 1 /\ midDown) => downSinceUp <= 1

\* the outage went on after the restart and its one alert
C16_Witness ==
    /\ restarts >= 1
    /\ midDown
    /\ allFalse
    /\ pc = "sleep"
    /\ consec_down > DOWNS
    /\ downSinceUp = 1
    /\ sent_down
    /\ msg = "NONE"

\* C17: send_alert goes to its status loop or returns; the loop fetches at
\* most 6 times and returns exactly at the first fetch that raises or
\* reports delivered, undelivered or failed, or at the sixth fetch; inside
\* send_alert a further step is always possible and none leaves the loop of
\* main.
C17_BoundedPolling ==
    /\ [][ /\ pc = "send_alert" => pc' \in {"poll", "sleep"}
           /\ pc = "poll" =>
                /\ polls' = polls + 1
                /\ polls' <= 6
                /\ pc' \in {"poll", "sleep"}
                /\ (pc' = "sleep") <=>
                       \/ delivery' = "poll_error"
                       \/ m_status' \in {"delivered", "undelivered", "failed"}
                       \/ polls' = 6 ]_vars
    /\ [](pc = "poll" => polls < 6)
    /\ [](pc \in {"send_alert", "poll"} => ENABLED Next)

\* six fetches without a terminal status: send_alert has returned
C17_Witness ==
    /\ pc = "sleep"
    /\ polls = 6
    /\ m_status = "sent"
    /\ delivery = "created"

\* C18: between two cycles sent_down is true exactly when state is DOWN, and
\* the last cycle handed over an UP alert exactly if it changed state to UP,
\* a DOWN alert exactly if it changed state to DOWN, and nothing exactly if
\* it left state as it was.
C18_AlertIffChange ==
    Boundary =>
        /\ sent_down = (state = "DOWN")
        /\ (msg = "UP") = (prev # "UP" /\ state = "UP")
        /\ (msg = "DOWN") = (prev # "DOWN" /\ state = "DOWN")
        /\ (msg = "NONE") = (prev = state)

\* the end of a cycle that went from UP to DOWN with its alert
C18_Witness ==
    /\ pc = "sleep"
    /\ prev = "UP"
    /\ state = "DOWN"
    /\ msg = "DOWN"
    /\ sent_down

\* C19: an alert handed to send_alert is never of the kind of the alert
\* before it.
C19_Alternation ==
    [][ (pc = "observe" /\ msg' # "NONE") => msg' # lastEvent ]_vars

\* an UP alert handed over at the end of a DOWN episode, after its DOWN alert
C19_Witness ==
    /\ pc = "send_alert"
    /\ msg = "UP"
    /\ lastEvent = "UP"
    /\ prev = "DOWN"
    /\ downSinceUp = 0

\* C20: state is UNKNOWN when the process starts, never becomes UNKNOWN
\* again once it is UP or DOWN, and while it is UNKNOWN no alert has been
\* handed to send_alert and sent_down is false.
C20_UnknownOnlyAtStart ==
    /\ [][ state # "UNKNOWN" => state' # "UNKNOWN" ]_vars
    /\ [](pc = "start" => state = "UNKNOWN")
    /\ [](state = "UNKNOWN" => (~sent_down /\ lastEvent = "NONE" /\ msg = "NONE"))

\* state still UNKNOWN after two cycles
C20_Witness ==
    /\ pc = "sleep"
    /\ state = "UNKNOWN"
    /\ consec_up = 2
    /\ lastEvent = "NONE"

====
